---------------------------- MODULE Spec2Model ----------------------------
(***************************************************************************)
(* deepclean: the Artifact Cleaner (cleaner.rs), the directory size        *)
(* measurement (utils.rs), the unused-dependency scanner adapter and the   *)
(* dependency pruner (deps.rs), and the Summary (output.rs) filled by the  *)
(* batch loop.                                                             *)
(*                                                                         *)
(* The filesystem and the external commands (cargo clean, cargo udeps,     *)
(* cargo machete, cargo remove) are the environment: what they return and  *)
(* what they do to the build-output directory is chosen with \E.           *)
(***************************************************************************)
EXTENDS Integers, Sequences, FiniteSets, TLC

(***************************************************************************)
(* Bounds of the model.                                                    *)
(***************************************************************************)
\* most entries WalkDir yields below a target directory
MaxEntries == 2
\* largest byte length of one file
MaxFileSize == 1
\* most projects of one batch
MaxProjects == 2
\* most direct calls of clean_project on one project
MaxCalls == 2
\* width of the scaled-down unsigned word standing for u64
WordBits == 5
\* most entries of the "unused_deps" array in scanner A's JSON
MaxJsonDeps == 2
\* most dependencies in a list handed to remove_unused_dependencies directly
MaxDeps == 2
\* most lines of one stream of scanner B's output
MaxLines == 2

U64Modulus == 2 ^ WordBits

VARIABLES
    \* ---- filesystem ----
    target,        \* the build-output directory of the project being cleaned
    manifest,      \* Cargo.toml of the project: exists, declared deps
    \* ---- clean_project (cleaner.rs) ----
    pc,            \* position inside clean_project
    cur,           \* the project being cleaned (0: none)
    dry_run,       \* the dry_run argument
    freed_bytes,   \* local freed_bytes (size before)
    output,        \* result of Command::output() for cargo clean
    ret,           \* what clean_project returned
    \* ---- history of one clean_project call ----
    size0,         \* bytes in the directory when clean_project was entered
    exists1,       \* whether the directory existed right after cargo clean
    cmd_calls,     \* cargo clean invocations of this call
    rm_log,        \* outcome of each remove_dir_all call of this call
    calls,         \* projects clean_project was entered for, in order
    \* ---- batch loop and Summary (output.rs) ----
    bpc,           \* position of the batch loop
    projects,      \* number of discovered projects
    summary,       \* the Summary under construction
    clean_rets,    \* what clean_project returned for each project so far
    \* ---- check_unused_dependencies / clean_dependencies (deps.rs) ----
    dpc,           \* position inside clean_dependencies
    remove,        \* the remove argument of clean_dependencies
    udeps_output,  \* result of Command::output() for cargo udeps
    machete_output,\* result of Command::output() for cargo machete
    unused_deps,   \* what check_unused_dependencies returned
    invocations,   \* every external command launched, in order
    dc_ret,        \* what clean_dependencies returned
    \* ---- remove_unused_dependencies (deps.rs) ----
    rpc,           \* position inside remove_unused_dependencies
    r_deps,        \* its unused_deps argument
    r_dry_run,     \* its dry_run argument
    r_i,           \* loop index over r_deps
    removed,       \* local counter removed
    r_ret,         \* what remove_unused_dependencies returned
    remove_log,    \* per attempted dependency: name and command outcome
    manifest_checks \* number of cargo_toml.exists() evaluations of this call

fsVars == <<target, manifest>>
cleanVars == <<pc, cur, dry_run, freed_bytes, output, ret, size0, exists1,
               cmd_calls, rm_log, calls>>
batchVars == <<bpc, projects, summary, clean_rets>>
depVars == <<dpc, remove, udeps_output, machete_output, unused_deps, dc_ret>>
pruneVars == <<rpc, r_deps, r_dry_run, r_i, removed, r_ret, remove_log,
               manifest_checks>>
vars == <<fsVars, cleanVars, batchVars, depVars, pruneVars, invocations>>

(***************************************************************************)
(* Result values.                                                          *)
(***************************************************************************)
Ok(v) == [ok |-> TRUE, val |-> v]
Err(m) == [ok |-> FALSE, val |-> m]
None == "None"
NoRet == [ok |-> FALSE, val |-> "not returned"]

(***************************************************************************)
(* The build-output directory: absent, or the entries a recursive walk     *)
(* yields, in walk order.  An entry is a regular file with a byte length,  *)
(* something that is not a regular file (a directory, a symlink), or an    *)
(* entry whose walk or metadata read fails.                                *)
(***************************************************************************)
FileEntry(n) == [kind |-> "file", len |-> n]
DirEntry == [kind |-> "dir", len |-> 0]
ErrEntry == [kind |-> "err", len |-> 0]
Entries == {FileEntry(n) : n \in 1..MaxFileSize} \cup {DirEntry, ErrEntry}

SeqsUpTo(S, n) == UNION {[1..k -> S] : k \in 0..n}

Absent == [exists |-> FALSE, entries |-> <<>>]
DirStates == {Absent} \cup
             {[exists |-> TRUE, entries |-> es] : es \in SeqsUpTo(Entries, MaxEntries)}

(***************************************************************************)
(* utils.rs: get_directory_size.  The loop over WalkDir::new(path): the    *)
(* first failing entry ends the call with the error (entry?, metadata()?); *)
(* only regular files add their length.  The bounds keep the sum below     *)
(* U64Modulus, so total += len never overflows here.                       *)
(***************************************************************************)
RECURSIVE walk_sum(_, _, _)
walk_sum(entries, i, total) ==
    IF i > Len(entries) THEN Ok(total)
    ELSE IF entries[i].kind = "err" THEN Err("walk error")
    ELSE IF entries[i].kind = "file"
         THEN walk_sum(entries, i + 1, total + entries[i].len)
         ELSE walk_sum(entries, i + 1, total)

get_directory_size(dir) ==
    IF ~dir.exists THEN Ok(0) ELSE walk_sum(dir.entries, 1, 0)

\* Result::unwrap_or
unwrap_or(r, d) == IF r.ok THEN r.val ELSE d

\* cleaner.rs 17-21 and 40-44: the measured size, 0 when absent or unmeasurable
measure_or_zero(dir) ==
    IF dir.exists THEN unwrap_or(get_directory_size(dir), 0) ELSE 0

\* u64::saturating_sub and, for comparison, u64::wrapping_sub
wrapping_sub(a, b) == (a - b) % U64Modulus
saturating_sub(a, b) == IF a >= b THEN a - b ELSE 0

(***************************************************************************)
(* What the claims call the size of the build-output directory: the bytes  *)
(* of its regular files, and 0 when it is absent or cannot be measured.    *)
(* Stated over the set of entry positions, not by a walk.                  *)
(***************************************************************************)
RECURSIVE SumOver(_, _)
SumOver(f, S) ==
    IF S = {} THEN 0
    ELSE LET x == CHOOSE y \in S : TRUE IN f[x] + SumOver(f, S \ {x})

Unmeasurable(dir) == \E i \in DOMAIN dir.entries : dir.entries[i].kind = "err"

DirBytes(dir) ==
    IF ~dir.exists \/ Unmeasurable(dir) THEN 0
    ELSE SumOver([i \in DOMAIN dir.entries |-> dir.entries[i].len],
                 {i \in DOMAIN dir.entries : dir.entries[i].kind = "file"})

(***************************************************************************)
(* cleaner.rs: CleanResult and clean_project, one action per step.         *)
(***************************************************************************)
CleanResult(p, s, f, e) ==
    [path |-> p, success |-> s, freed_bytes |-> f, error |-> e]

target_dir == target

\* lines 15-30: measure the directory; in dry-run mode return at once
clean_project_enter_nodry ==
    /\ pc = "enter"
    /\ freed_bytes' = measure_or_zero(target_dir)
    /\ size0' = DirBytes(target)
    /\ exists1' = target.exists
    /\ cmd_calls' = 0
    /\ rm_log' = <<>>
    /\ calls' = Append(calls, cur)
    /\ output' = None
    /\ pc' = "command"
    /\ ret' = NoRet
    /\ UNCHANGED <<fsVars, cur, dry_run, batchVars, depVars, pruneVars, invocations>>

clean_project_enter ==
    /\ pc = "enter"
    /\ freed_bytes' = measure_or_zero(target_dir)
    /\ size0' = DirBytes(target)
    /\ exists1' = target.exists
    /\ cmd_calls' = 0
    /\ rm_log' = <<>>
    /\ calls' = Append(calls, cur)
    /\ output' = None
    /\ IF dry_run
       THEN /\ ret' = Ok(CleanResult(cur, TRUE, freed_bytes', None))
            /\ pc' = "returned"
       ELSE /\ ret' = NoRet
            /\ pc' = "command"
    /\ UNCHANGED <<fsVars, cur, dry_run, batchVars, depVars, pruneVars, invocations>>

\* lines 33-36: run cargo clean.  It cannot be launched (the filesystem is
\* untouched), or it runs, leaves the directory in any state and exits with
\* a success or a failure status.
clean_project_command ==
    /\ pc = "command"
    /\ \E out \in {"launch_error", "exit_failure", "exit_success"} :
         /\ output' = out
         /\ IF out = "launch_error"
            THEN target' = target
            ELSE \E d \in DirStates : target' = d
    /\ exists1' = target'.exists
    /\ cmd_calls' = cmd_calls + 1
    /\ pc' = "match"
    /\ UNCHANGED <<manifest, cur, dry_run, freed_bytes, ret, size0, rm_log,
                   calls, batchVars, depVars, pruneVars, invocations>>

\* lines 39-53: cargo clean exited successfully
clean_project_success ==
    /\ pc = "match"
    /\ output = "exit_success"
    /\ LET after_size == measure_or_zero(target_dir)
           actually_freed == saturating_sub(freed_bytes, after_size)
       IN ret' = Ok(CleanResult(cur, TRUE, actually_freed, None))
    /\ pc' = "returned"
    /\ UNCHANGED <<fsVars, cur, dry_run, freed_bytes, output, size0, exists1,
                   cmd_calls, rm_log, calls, batchVars, depVars, pruneVars,
                   invocations>>

\* std::fs::remove_dir_all on an existing directory: it removes the whole
\* directory, or fails after removing some leading entries.
RemoveDirAllOutcomes(dir) ==
    {[ok |-> TRUE, dir |-> Absent]} \cup
    {[ok |-> FALSE,
      dir |-> [exists |-> TRUE,
               entries |-> SubSeq(dir.entries, k, Len(dir.entries))]] :
        k \in 1..(Len(dir.entries) + 1)}

\* lines 54-75 with the deletion error reported inside an Ok outcome
clean_project_fallback_swallow ==
    /\ pc = "match"
    /\ output # "exit_success"
    /\ IF target_dir.exists
       THEN \E o \in RemoveDirAllOutcomes(target_dir) :
              /\ target' = o.dir
              /\ rm_log' = Append(rm_log, o.ok)
              /\ ret' = Ok(CleanResult(cur, o.ok, freed_bytes,
                                       IF o.ok THEN None
                                       ELSE "Failed to remove target directory"))
       ELSE /\ ret' = Ok(CleanResult(cur, TRUE, 0, None))
            /\ UNCHANGED <<target, rm_log>>
    /\ pc' = "returned"
    /\ UNCHANGED <<manifest, cur, dry_run, freed_bytes, output, size0, exists1,
                   cmd_calls, calls, batchVars, depVars, pruneVars, invocations>>

\* lines 54-75 reporting the size before also when the directory is absent
clean_project_fallback_stale ==
    /\ pc = "match"
    /\ output # "exit_success"
    /\ IF target_dir.exists
       THEN \E o \in RemoveDirAllOutcomes(target_dir) :
              /\ target' = o.dir
              /\ rm_log' = Append(rm_log, o.ok)
              /\ ret' = IF o.ok
                        THEN Ok(CleanResult(cur, TRUE, freed_bytes, None))
                        ELSE Err("Failed to remove target directory")
       ELSE /\ ret' = Ok(CleanResult(cur, TRUE, freed_bytes, None))
            /\ UNCHANGED <<target, rm_log>>
    /\ pc' = "returned"
    /\ UNCHANGED <<manifest, cur, dry_run, freed_bytes, output, size0, exists1,
                   cmd_calls, calls, batchVars, depVars, pruneVars, invocations>>

\* lines 54-75 with a failing cargo clean reported as the error
clean_project_fallback_strict ==
    /\ pc = "match"
    /\ output # "exit_success"
    /\ ret' = Err("cargo clean failed")
    /\ pc' = "returned"
    /\ UNCHANGED <<fsVars, cur, dry_run, freed_bytes, output, size0, exists1,
                   cmd_calls, rm_log, calls, batchVars, depVars, pruneVars,
                   invocations>>

\* lines 54-75: cargo clean failed or could not be launched: remove the
\* directory directly; only a failing deletion is an error
clean_project_fallback ==
    /\ pc = "match"
    /\ output # "exit_success"
    /\ IF target_dir.exists
       THEN \E o \in RemoveDirAllOutcomes(target_dir) :
              /\ target' = o.dir
              /\ rm_log' = Append(rm_log, o.ok)
              /\ ret' = IF o.ok
                        THEN Ok(CleanResult(cur, TRUE, freed_bytes, None))
                        ELSE Err("Failed to remove target directory")
       ELSE /\ ret' = Ok(CleanResult(cur, TRUE, 0, None))
            /\ UNCHANGED <<target, rm_log>>
    /\ pc' = "returned"
    /\ UNCHANGED <<manifest, cur, dry_run, freed_bytes, output, size0, exists1,
                   cmd_calls, calls, batchVars, depVars, pruneVars, invocations>>

clean_project ==
    \/ clean_project_enter
    \/ clean_project_command
    \/ clean_project_success
    \/ clean_project_fallback



\* a caller of the public function: the first call is set up by InitClean,
\* every later call is made on the directory as the last call left it
call_clean_project ==
    /\ bpc = "single"
    /\ pc = "returned"
    /\ Len(calls) < MaxCalls
    /\ \E d \in BOOLEAN : dry_run' = d
    /\ pc' = "enter"
    /\ UNCHANGED <<fsVars, cur, freed_bytes, output, ret, size0, exists1,
                   cmd_calls, rm_log, calls, batchVars, depVars, pruneVars,
                   invocations>>

(***************************************************************************)
(* The batch loop over the discovered projects and the Summary             *)
(* (output.rs 7-14) it fills.  projects is the number of discovered      *)
(* projects; project p is the p-th in discovery order.  target is the      *)
(* directory of the project the loop is at: the loop meets the next        *)
(* project's directory in whatever state it is in.                         *)
(***************************************************************************)
Summary(n, c, f, t, rs) ==
    [total_projects |-> n, cleaned |-> c, failed |-> f,
     total_freed_bytes |-> t, results |-> rs]

batch_next ==
    /\ bpc = "loop"
    /\ pc = "idle"
    /\ cur < projects
    /\ cur' = cur + 1
    /\ \E d \in DirStates : target' = d
    /\ pc' = "enter"
    /\ UNCHANGED <<manifest, dry_run, freed_bytes, output, ret, size0, exists1,
                   cmd_calls, rm_log, calls, batchVars, depVars, pruneVars,
                   invocations>>

\* the bounds keep total_freed_bytes below U64Modulus
batch_record ==
    /\ bpc = "loop"
    /\ pc = "returned"
    /\ summary' =
         IF ret.ok
         THEN [summary EXCEPT !.cleaned = @ + 1,
                              !.total_freed_bytes = @ + ret.val.freed_bytes,
                              !.results = Append(@, ret.val)]
         ELSE [summary EXCEPT !.failed = @ + 1,
                              !.results = Append(@, CleanResult(cur, FALSE, 0, ret.val))]
    /\ clean_rets' = Append(clean_rets, ret)
    /\ pc' = "idle"
    \* the finished call's locals and history are dropped
    /\ freed_bytes' = 0
    /\ output' = None
    /\ ret' = NoRet
    /\ size0' = 0
    /\ exists1' = FALSE
    /\ cmd_calls' = 0
    /\ rm_log' = <<>>
    /\ UNCHANGED <<fsVars, cur, dry_run, calls, bpc, projects, depVars, pruneVars, invocations>>

batch_finalize ==
    /\ bpc = "loop"
    /\ pc = "idle"
    /\ cur = projects
    /\ bpc' = "finalized"
    /\ UNCHANGED <<fsVars, cleanVars, projects, summary, clean_rets, depVars, pruneVars,
                   invocations>>

(***************************************************************************)
(* Text.  A text is a sequence of one-character strings; the operators     *)
(* below are the str methods deps.rs uses, with Rust's 0-based offsets.    *)
(***************************************************************************)
Some(v) == [some |-> TRUE, val |-> v]
NoneOpt == [some |-> FALSE, val |-> 0]

\* the backtick character (written as a name: the character itself is
\* reserved by the TLA+ lexer)
Backtick == "BACKTICK"
Whitespace == {" ", "\t", "\n", "\r"}

\* "unused dependency:"
Marker == <<"u", "n", "u", "s", "e", "d", " ",
            "d", "e", "p", "e", "n", "d", "e", "n", "c", "y", ":">>

\* &s[from..to], offsets 0-based, to exclusive
slice(s, from, to) == SubSeq(s, from + 1, to)

\* str::find(char): offset of the first occurrence
find(s, c) ==
    IF \E i \in 1..Len(s) : s[i] = c
    THEN Some((CHOOSE i \in 1..Len(s) :
                 /\ s[i] = c
                 /\ \A j \in 1..(i - 1) : s[j] # c) - 1)
    ELSE NoneOpt

\* str::contains(&str)
contains(s, pat) ==
    \E i \in 0..(Len(s) - Len(pat)) : slice(s, i, i + Len(pat)) = pat

starts_with(s, c) == Len(s) >= 1 /\ s[1] = c
ends_with(s, c) == Len(s) >= 1 /\ s[Len(s)] = c

\* str::trim
RECURSIVE trim_start(_)
trim_start(s) ==
    IF s # <<>> /\ Head(s) \in Whitespace THEN trim_start(Tail(s)) ELSE s

RECURSIVE trim_end(_)
trim_end(s) ==
    IF s # <<>> /\ s[Len(s)] \in Whitespace
    THEN trim_end(SubSeq(s, 1, Len(s) - 1)) ELSE s

trim(s) == trim_end(trim_start(s))

\* str::lines: split at "\n", a "\r" right before it is dropped too, and a
\* text ending with "\n" has no empty last line
strip_cr(l) == IF ends_with(l, "\r") THEN SubSeq(l, 1, Len(l) - 1) ELSE l

RECURSIVE lines_from(_, _, _)
lines_from(text, i, acc) ==
    IF i > Len(text)
    THEN IF acc = <<>> THEN <<>> ELSE <<acc>>
    ELSE IF text[i] = "\n"
         THEN <<strip_cr(acc)>> \o lines_from(text, i + 1, <<>>)
         ELSE lines_from(text, i + 1, Append(acc, text[i]))

lines(text) == lines_from(text, 1, <<>>)

(***************************************************************************)
(* deps.rs: UnusedDependency and parse_machete_output.                     *)
(***************************************************************************)
UnusedDependency(n, l) == [name |-> n, location |-> l]

\* "[dependencies]"
DependenciesLabel == <<"[", "d", "e", "p", "e", "n", "d", "e", "n", "c", "i", "e", "s", "]">>

\* lines 111-120: a line holding the marker phrase
machete_marker_line(line) ==
    LET start == find(line, Backtick) IN
    IF ~start.some THEN <<>>
    ELSE LET end == find(slice(line, start.val + 1, Len(line)), Backtick) IN
         IF ~end.some THEN <<>>
         ELSE <<UnusedDependency(slice(line, start.val + 1, start.val + 1 + end.val),
                                 DependenciesLabel)>>

\* lines 121-130: a line that is one backtick-quoted token
machete_bare_line(line) ==
    IF starts_with(line, Backtick) /\ ends_with(line, Backtick) /\ Len(line) > 2
    THEN LET dep_name == slice(line, 1, Len(line) - 1) IN
         IF dep_name # <<>> /\ ~contains(dep_name, <<" ">>)
         THEN <<UnusedDependency(dep_name, DependenciesLabel)>>
         ELSE <<>>
    ELSE <<>>

\* lines 109-130: what one line adds to unused
machete_line(raw) ==
    LET line == trim(raw) IN
    IF contains(line, Marker) THEN machete_marker_line(line)
    ELSE machete_bare_line(line)

RECURSIVE machete_lines(_, _)
machete_lines(ls, i) ==
    IF i > Len(ls) THEN <<>>
    ELSE machete_line(ls[i]) \o machete_lines(ls, i + 1)

\* lines 102-134 (the function has no failing path: it always returns Ok)
parse_machete_output(text) == machete_lines(lines(text), 1)

(***************************************************************************)
(* deps.rs: parse_udeps_output.  A stream of scanner A is the empty text,  *)
(* a non-empty text that is not JSON, or the text of a JSON document; a    *)
(* document is a serde_json::Value.  An object is a map over the keys the  *)
(* parser asks for, JAbsent marking a key the object does not have.        *)
(***************************************************************************)
JsonKeys == {"unused_deps", "name", "location"}
JAbsent == [t |-> "absent", s |-> <<>>, a |-> <<>>, f |-> <<>>]
JNum == [t |-> "num", s |-> <<>>, a |-> <<>>, f |-> <<>>]
JStr(chars) == [t |-> "str", s |-> chars, a |-> <<>>, f |-> <<>>]
JArr(vs) == [t |-> "arr", s |-> <<>>, a |-> vs, f |-> <<>>]
JObj(unused, n, l) ==
    [t |-> "obj", s |-> <<>>, a |-> <<>>,
     f |-> [k \in JsonKeys |->
              IF k = "unused_deps" THEN unused ELSE IF k = "name" THEN n ELSE l]]

EmptyText == [kind |-> "empty", doc |-> JAbsent]
GarbageText == [kind |-> "garbage", doc |-> JAbsent]
JsonText(v) == [kind |-> "json", doc |-> v]

\* str::is_empty on a stream of scanner A
text_is_empty(text) == text.kind = "empty"

\* serde_json::from_str::<Value>
from_str(text) == IF text.kind = "json" THEN Ok(text.doc) ELSE Err("not JSON")

\* Value::get(&str), Value::as_array, Value::as_str
json_get(v, key) ==
    IF v.t = "obj" /\ v.f[key].t # "absent" THEN Some(v.f[key]) ELSE NoneOpt
as_array(o) == IF o.some /\ o.val.t = "arr" THEN Some(o.val.a) ELSE NoneOpt
as_str(o) == IF o.some /\ o.val.t = "str" THEN Some(o.val.s) ELSE NoneOpt

\* lines 84-94: what one array entry adds to unused
udeps_entry(dep) ==
    LET name == as_str(json_get(dep, "name"))
        location == as_str(json_get(dep, "location"))
    IN IF name.some /\ location.some
       THEN <<UnusedDependency(name.val, location.val)>>
       ELSE <<>>

RECURSIVE udeps_entries(_, _)
udeps_entries(deps, i) ==
    IF i > Len(deps) THEN <<>>
    ELSE udeps_entry(deps[i]) \o udeps_entries(deps, i + 1)

\* lines 75-99
parse_udeps_output(text) ==
    LET json == from_str(text) IN
    IF ~json.ok THEN <<>>
    ELSE LET unused_deps_field == as_array(json_get(json.val, "unused_deps")) IN
         IF unused_deps_field.some THEN udeps_entries(unused_deps_field.val, 1)
         ELSE <<>>

(***************************************************************************)
(* What the external scanners can print.                                   *)
(***************************************************************************)
NameA == <<"a">>
NameB == <<"b">>
\* "[dev]", a section label scanner A reports
DevLabel == <<"[", "d", "e", "v", "]">>

\* entries of the unused_deps array scanner A prints
JsonEntries ==
    { JObj(JAbsent, JStr(NameA), JStr(DevLabel)),   \* well-formed
      JObj(JAbsent, JStr(<<>>), JStr(DevLabel)),    \* "name": ""
      JObj(JAbsent, JStr(NameA), JAbsent) }                  \* no "location"

\* streams of scanner A
UdepsTexts ==
    {EmptyText, GarbageText, JsonText(JNum), JsonText(JObj(JNum, JAbsent, JAbsent))}
    \cup {JsonText(JObj(JArr(es), JAbsent, JAbsent)) :
             es \in SeqsUpTo(JsonEntries, MaxJsonDeps)}

\* lines of scanner B (B in the margin stands for a backtick)
MacheteLines ==
    { Marker \o <<" ", Backtick, "a", Backtick>>,        \* unused dependency: BaB
      Marker \o <<" ", Backtick, Backtick>>,             \* unused dependency: BB
      <<Backtick, "b", Backtick>>,                       \* BbB
      <<" ", Backtick, "a", " ", "b", Backtick>>,        \* (space)Ba bB
      <<"n", "o", "n", "e">> }                 \* none

RECURSIVE join_lines(_, _)
join_lines(ls, i) ==
    IF i > Len(ls) THEN <<>>
    ELSE ls[i] \o <<"\n">> \o join_lines(ls, i + 1)

\* streams of scanner B: up to MaxLines lines, each ended by a newline
MacheteTexts == {join_lines(ls, 1) : ls \in SeqsUpTo(MacheteLines, MaxLines)}

\* Command::output() of a scanner: it could not be launched, or it ran and
\* printed two streams and exited with a status
NotRun(empty) == [state |-> "none", status |-> 0, stdout |-> empty, stderr |-> empty]
LaunchError(empty) ==
    [state |-> "launch_error", status |-> 0, stdout |-> empty, stderr |-> empty]
Ran(st, out, err) == [state |-> "ran", status |-> st, stdout |-> out, stderr |-> err]

UdepsOutputs ==
    {LaunchError(EmptyText)} \cup
    {Ran(st, out, err) : st \in {0, 1}, out \in UdepsTexts, err \in UdepsTexts}

\* the exit status of scanner B is never read: one value stands for all
MacheteOutputs ==
    {LaunchError(<<>>)} \cup
    {Ran(1, out, err) : out \in MacheteTexts, err \in MacheteTexts}

Invocation(c, a) == [cmd |-> c, arg |-> a]

(***************************************************************************)
(* deps.rs: check_unused_dependencies, one action per step.                *)
(***************************************************************************)
\* lines 28-46 with a non-zero exit status of scanner A taken as "no result"
udeps_result_status(o) ==
    IF o.state = "ran" /\ o.status = 0
       /\ (~text_is_empty(o.stdout) \/ ~text_is_empty(o.stderr))
    THEN LET parsed == parse_udeps_output(o.stdout)
             parsed_stderr == parse_udeps_output(o.stderr)
         IN IF parsed # <<>> THEN Some(parsed)
            ELSE IF parsed_stderr # <<>> THEN Some(parsed_stderr)
            ELSE NoneOpt
    ELSE NoneOpt

\* lines 28-46: the list check_unused_dependencies returns from scanner A's
\* output, if it returns there
udeps_result(o) ==
    IF o.state = "ran" /\ (~text_is_empty(o.stdout) \/ ~text_is_empty(o.stderr))
    THEN LET parsed == parse_udeps_output(o.stdout)
             parsed_stderr == parse_udeps_output(o.stderr)
         IN IF parsed # <<>> THEN Some(parsed)
            ELSE IF parsed_stderr # <<>> THEN Some(parsed_stderr)
            ELSE NoneOpt
    ELSE NoneOpt

\* lines 54-71: the list returned after scanner B
machete_result(o) ==
    IF o.state = "ran"
    THEN LET parsed_stdout == parse_machete_output(o.stdout)
             parsed_stderr == parse_machete_output(o.stderr)
         IN IF parsed_stdout # <<>> THEN parsed_stdout
            ELSE IF parsed_stderr # <<>> THEN parsed_stderr
            ELSE <<>>
    ELSE <<>>

\* lines 23-26: run cargo udeps --output json
check_udeps_invoke ==
    /\ dpc = "check"
    /\ \E o \in UdepsOutputs : udeps_output' = o
    /\ invocations' = Append(invocations, Invocation("udeps", <<>>))
    /\ dpc' = "udeps_done"
    /\ UNCHANGED <<fsVars, cleanVars, batchVars, remove, machete_output,
                   unused_deps, dc_ret, pruneVars>>

\* lines 28-46: return scanner A's list, or go on to scanner B (udeps_output
\* is not read after line 46)
check_udeps_parse ==
    /\ dpc = "udeps_done"
    /\ LET r == udeps_result(udeps_output) IN
       IF r.some
       THEN /\ unused_deps' = r.val
            /\ dpc' = "checked"
            /\ UNCHANGED udeps_output
       ELSE /\ dpc' = "machete"
            /\ udeps_output' = NotRun(EmptyText)
            /\ UNCHANGED unused_deps
    /\ UNCHANGED <<fsVars, cleanVars, batchVars, remove, machete_output,
                   dc_ret, pruneVars, invocations>>

\* lines 49-71: run cargo machete and return its list, or the empty list
check_machete ==
    /\ dpc = "machete"
    /\ \E o \in MacheteOutputs :
         /\ machete_output' = o
         /\ unused_deps' = machete_result(o)
    /\ invocations' = Append(invocations, Invocation("machete", <<>>))
    /\ dpc' = "checked"
    /\ UNCHANGED <<fsVars, cleanVars, batchVars, remove, udeps_output, dc_ret,
                   pruneVars>>

(***************************************************************************)
(* deps.rs: remove_unused_dependencies, one action per step.               *)
(***************************************************************************)
\* lines 142-149 with the manifest check before the dry-run test
remove_enter_manifest_first ==
    /\ rpc = "enter"
    /\ remove_log' = <<>>
    /\ manifest_checks' = 1
    /\ IF ~manifest.exists
       THEN /\ r_ret' = Err("Cargo.toml not found")
            /\ rpc' = "returned"
            /\ UNCHANGED <<removed, r_i>>
       ELSE IF r_dry_run \/ r_deps = <<>>
       THEN /\ r_ret' = Ok(0)
            /\ rpc' = "returned"
            /\ UNCHANGED <<removed, r_i>>
       ELSE /\ removed' = 0
            /\ r_i' = 1
            /\ rpc' = "loop"
            /\ UNCHANGED r_ret
    /\ UNCHANGED <<fsVars, cleanVars, batchVars, depVars, r_deps, r_dry_run,
                   invocations>>

\* lines 142-149 without the manifest check
remove_enter_nocheck ==
    /\ rpc = "enter"
    /\ remove_log' = <<>>
    /\ manifest_checks' = 0
    /\ IF r_dry_run \/ r_deps = <<>>
       THEN /\ r_ret' = Ok(0)
            /\ rpc' = "returned"
            /\ UNCHANGED <<removed, r_i>>
       ELSE /\ removed' = 0
            /\ r_i' = 1
            /\ rpc' = "loop"
            /\ UNCHANGED r_ret
    /\ UNCHANGED <<fsVars, cleanVars, batchVars, depVars, r_deps, r_dry_run,
                   invocations>>

\* lines 142-152: the dry-run / empty-list return, the manifest check, and
\* the start of the loop
remove_enter ==
    /\ rpc = "enter"
    /\ remove_log' = <<>>
    /\ IF r_dry_run \/ r_deps = <<>>
       THEN /\ r_ret' = Ok(0)
            /\ rpc' = "returned"
            /\ manifest_checks' = 0
            /\ UNCHANGED <<removed, r_i>>
       ELSE /\ manifest_checks' = 1
            /\ IF ~manifest.exists
               THEN /\ r_ret' = Err("Cargo.toml not found")
                    /\ rpc' = "returned"
                    /\ UNCHANGED <<removed, r_i>>
               ELSE /\ removed' = 0
                    /\ r_i' = 1
                    /\ rpc' = "loop"
                    /\ UNCHANGED r_ret
    /\ UNCHANGED <<fsVars, cleanVars, batchVars, depVars, r_deps, r_dry_run,
                   invocations>>

\* what cargo remove <name> can do: it cannot be launched, it fails, or (only
\* for a dependency the manifest declares) it removes the entry and succeeds
RemoveOutcomes(name) ==
    {"launch_error", "exit_failure"} \cup
    (IF manifest.exists /\ name \in manifest.deps THEN {"exit_success"} ELSE {})

\* lines 153-168 counting every command that could be launched
remove_one_count_launched ==
    /\ rpc = "loop"
    /\ r_i <= Len(r_deps)
    /\ LET dep == r_deps[r_i] IN
       \E out \in RemoveOutcomes(dep.name) :
         /\ invocations' = Append(invocations, Invocation("remove", dep.name))
         /\ remove_log' = Append(remove_log, [name |-> dep.name, outcome |-> out])
         /\ removed' = IF out # "launch_error" THEN removed + 1 ELSE removed
         /\ manifest' = IF out = "exit_success"
                        THEN [manifest EXCEPT !.deps = @ \ {dep.name}]
                        ELSE manifest
    /\ r_i' = r_i + 1
    /\ UNCHANGED <<target, cleanVars, batchVars, depVars, rpc, r_deps, r_dry_run,
                   r_ret, manifest_checks>>

\* lines 153-168: one iteration of the loop over unused_deps
remove_one ==
    /\ rpc = "loop"
    /\ r_i <= Len(r_deps)
    /\ LET dep == r_deps[r_i] IN
       \E out \in RemoveOutcomes(dep.name) :
         /\ invocations' = Append(invocations, Invocation("remove", dep.name))
         /\ remove_log' = Append(remove_log, [name |-> dep.name, outcome |-> out])
         /\ removed' = IF out = "exit_success" THEN removed + 1 ELSE removed
         /\ manifest' = IF out = "exit_success"
                        THEN [manifest EXCEPT !.deps = @ \ {dep.name}]
                        ELSE manifest
    /\ r_i' = r_i + 1
    /\ UNCHANGED <<target, cleanVars, batchVars, depVars, rpc, r_deps, r_dry_run,
                   r_ret, manifest_checks>>

\* line 170
remove_return ==
    /\ rpc = "loop"
    /\ r_i > Len(r_deps)
    /\ r_ret' = Ok(removed)
    /\ rpc' = "returned"
    /\ UNCHANGED <<fsVars, cleanVars, batchVars, depVars, r_deps, r_dry_run, r_i,
                   removed, remove_log, manifest_checks, invocations>>

remove_unused_dependencies == remove_enter \/ remove_one \/ remove_return

(***************************************************************************)
(* deps.rs: DependencyCleanResult and clean_dependencies.                  *)
(***************************************************************************)
DependencyCleanResult(p, s, u, n, e) ==
    [path |-> p, success |-> s, unused_deps |-> u, removed_count |-> n,
     error |-> e]

\* lines 179-187: check_unused_dependencies has returned (its locals are
\* gone); call remove_unused_dependencies, or report removed_count = 0
clean_dependencies_checked ==
    /\ dpc = "checked"
    /\ udeps_output' = NotRun(EmptyText)
    /\ machete_output' = NotRun(<<>>)
    /\ IF remove /\ unused_deps # <<>>
       THEN /\ r_deps' = unused_deps
            /\ r_dry_run' = dry_run
            /\ rpc' = "enter"
            /\ dpc' = "removing"
            /\ UNCHANGED dc_ret
       ELSE /\ dc_ret' = Ok(DependencyCleanResult(1, TRUE, unused_deps, 0, None))
            /\ dpc' = "returned"
            /\ UNCHANGED <<r_deps, r_dry_run, rpc>>
    /\ UNCHANGED <<fsVars, cleanVars, batchVars, remove, unused_deps, r_i, removed,
                   r_ret, remove_log, manifest_checks, invocations>>

\* lines 183-196: remove_unused_dependencies has returned; its error, if
\* any, becomes removed_count = 0
clean_dependencies_return ==
    /\ dpc = "removing"
    /\ rpc = "returned"
    /\ LET removed_count == unwrap_or(r_ret, 0) IN
       dc_ret' = Ok(DependencyCleanResult(1, TRUE, unused_deps, removed_count, None))
    /\ dpc' = "returned"
    /\ UNCHANGED <<fsVars, cleanVars, batchVars, remove, udeps_output,
                   machete_output, unused_deps, pruneVars, invocations>>

check_unused_dependencies == check_udeps_invoke \/ check_udeps_parse \/ check_machete

clean_dependencies ==
    \/ check_unused_dependencies
    \/ clean_dependencies_checked
    \/ remove_unused_dependencies
    \/ clean_dependencies_return

(***************************************************************************)
(* Initial states and specifications.                                      *)
(***************************************************************************)
NoManifest == [exists |-> FALSE, deps |-> {}]

InitCleanLocals ==
    /\ freed_bytes = 0
    /\ output = None
    /\ ret = NoRet
    /\ size0 = 0
    /\ exists1 = FALSE
    /\ cmd_calls = 0
    /\ rm_log = <<>>
    /\ calls = <<>>

InitDepsIdle ==
    /\ manifest = NoManifest
    /\ dpc = "idle"
    /\ remove = FALSE
    /\ udeps_output = NotRun(EmptyText)
    /\ machete_output = NotRun(<<>>)
    /\ unused_deps = <<>>
    /\ invocations = <<>>
    /\ dc_ret = NoRet
    /\ rpc = "idle"
    /\ r_deps = <<>>
    /\ r_dry_run = FALSE
    /\ r_i = 0
    /\ removed = 0
    /\ r_ret = NoRet
    /\ remove_log = <<>>
    /\ manifest_checks = 0

\* one project, cleaned by direct calls of clean_project
InitClean ==
    /\ target \in DirStates
    /\ dry_run \in BOOLEAN
    /\ cur = 1
    /\ pc = "enter"
    /\ bpc = "single"
    /\ projects = 1
    /\ summary = Summary(1, 0, 0, 0, <<>>)
    /\ clean_rets = <<>>
    /\ InitCleanLocals
    /\ InitDepsIdle

NextClean == clean_project \/ call_clean_project

SpecClean == InitClean /\ [][NextClean]_vars

\* a batch over 0..MaxProjects discovered projects
InitBatch ==
    /\ target = Absent
    /\ dry_run \in BOOLEAN
    /\ cur = 0
    /\ pc = "idle"
    /\ bpc = "loop"
    /\ projects \in 0..MaxProjects
    /\ summary = Summary(projects, 0, 0, 0, <<>>)
    /\ clean_rets = <<>>
    /\ InitCleanLocals
    /\ InitDepsIdle

NextBatch == clean_project \/ batch_next \/ batch_record \/ batch_finalize

SpecBatch == InitBatch /\ [][NextBatch]_vars

(***************************************************************************)
(* Calls of the dependency functions: clean_dependencies, or               *)
(* remove_unused_dependencies called directly with any list.               *)
(***************************************************************************)
ManifestDeps == {NameA, NameB}
FullManifest == [exists |-> TRUE, deps |-> ManifestDeps]
InitManifests == {NoManifest, FullManifest}

DepLists ==
    SeqsUpTo({UnusedDependency(NameA, DependenciesLabel),
              UnusedDependency(NameB, DependenciesLabel),
              UnusedDependency(<<>>, DependenciesLabel)}, MaxDeps)

InitDeps ==
    /\ target = Absent
    /\ dry_run \in BOOLEAN
    /\ cur = 0
    /\ pc = "idle"
    /\ bpc = "single"
    /\ projects = 1
    /\ summary = Summary(1, 0, 0, 0, <<>>)
    /\ clean_rets = <<>>
    /\ InitCleanLocals
    /\ manifest \in InitManifests
    /\ remove \in BOOLEAN
    /\ udeps_output = NotRun(EmptyText)
    /\ machete_output = NotRun(<<>>)
    /\ unused_deps = <<>>
    /\ invocations = <<>>
    /\ dc_ret = NoRet
    /\ r_i = 0
    /\ removed = 0
    /\ r_ret = NoRet
    /\ remove_log = <<>>
    /\ manifest_checks = 0
    /\ \/ /\ dpc = "check"
          /\ rpc = "idle"
          /\ r_deps = <<>>
          /\ r_dry_run = FALSE
       \/ /\ dpc = "direct"
          /\ remove = TRUE
          /\ rpc = "enter"
          /\ r_deps \in DepLists
          /\ r_dry_run = dry_run

NextDeps == clean_dependencies

SpecDeps == InitDeps /\ [][NextDeps]_vars

(***************************************************************************)
(* Claims about clean_project, checked under SpecClean.                    *)
(***************************************************************************)
Returned == pc = "returned"
CommandFailed == output \in {"exit_failure", "launch_error"}

\* C1: clean_project(project, dry_run = true), entered with the build-output
\* directory in any state, runs no cargo clean and no deletion, leaves the
\* filesystem as it was, and returns success = true with freed_bytes equal
\* to the size of the directory before the call (0 when it is absent or
\* cannot be measured).
C1_DryRunClean ==
    [][(pc = "enter" /\ dry_run) =>
         /\ target' = target
         /\ manifest' = manifest
         /\ cmd_calls' = 0
         /\ rm_log' = <<>>
         /\ pc' = "returned"
         /\ ret' = Ok(CleanResult(cur, TRUE, DirBytes(target), None))]_vars

C1_Witness ==
    /\ Returned /\ dry_run
    /\ target.exists /\ DirBytes(target) > 0
    /\ ret.ok /\ ret.val.freed_bytes > 0

\* C2: with dry_run = false and a cargo clean that failed or could not be
\* launched: if the directory still exists it is deleted once, and when the
\* deletion succeeds the directory is gone and the outcome is success = true
\* with freed_bytes = the size before the call; if the directory does not
\* exist nothing is deleted and the outcome is success = true with
\* freed_bytes = 0.
C2_FallbackClean ==
    (Returned /\ ~dry_run /\ CommandFailed) =>
        /\ exists1 => Len(rm_log) = 1
        /\ (exists1 /\ rm_log = <<TRUE>>) =>
              /\ ~target.exists
              /\ ret = Ok(CleanResult(cur, TRUE, size0, None))
        /\ ~exists1 =>
              /\ rm_log = <<>>
              /\ ret = Ok(CleanResult(cur, TRUE, 0, None))

C2_Witness ==
    /\ Returned /\ ~dry_run /\ output = "exit_failure"
    /\ ~exists1 /\ size0 > 0 /\ ret.ok

\* C3: clean_project returns an error exactly when dry_run = false, cargo
\* clean did not exit successfully, the directory exists and its deletion
\* fails; every other return is an outcome with success = true and no error
\* message.
C3_FailureSemantics ==
    Returned =>
        /\ ~ret.ok <=> (/\ ~dry_run
                        /\ CommandFailed
                        /\ exists1
                        /\ rm_log = <<FALSE>>)
        /\ ret.ok => (ret.val.success /\ ret.val.error = None)

C3_Witness ==
    /\ Returned /\ ~dry_run /\ output = "launch_error"
    /\ exists1 /\ ret.ok

\* C4: with dry_run = false and a cargo clean that exited successfully,
\* freed_bytes = max(0, before - after); it is never negative, never wraps
\* around and never exceeds before (also when after > before).
Max0(x) == IF x > 0 THEN x ELSE 0

C4_SuccessfulClean ==
    (Returned /\ ~dry_run /\ output = "exit_success") =>
        /\ ret.ok
        /\ rm_log = <<>>
        /\ ret.val.freed_bytes = Max0(size0 - DirBytes(target))
        /\ ret.val.freed_bytes >= 0
        /\ ret.val.freed_bytes <= size0

C4_Witness ==
    /\ Returned /\ ~dry_run /\ output = "exit_success"
    /\ size0 > 0 /\ DirBytes(target) > size0
    /\ ret.val.freed_bytes = 0

(***************************************************************************)
(* Claim about the batch loop, checked under SpecBatch.                    *)
(***************************************************************************)
Failures == {p \in DOMAIN clean_rets : ~clean_rets[p].ok}

\* C10: when the batch is finalized, clean_project was entered once for each
\* of the N projects in discovery order whatever failed before, and the
\* Summary has total_projects = N, failed = the number of projects whose
\* clean returned an error, cleaned = N - failed, one result per project and
\* total_freed_bytes = the sum of freed_bytes over the results with
\* success = true.
C10_BatchSummary ==
    bpc = "finalized" =>
        /\ calls = [p \in 1..projects |-> p]
        /\ Len(clean_rets) = projects
        /\ summary.total_projects = projects
        /\ summary.failed = Cardinality(Failures)
        /\ summary.cleaned = projects - Cardinality(Failures)
        /\ summary.cleaned + summary.failed = summary.total_projects
        /\ Len(summary.results) = projects
        /\ summary.total_freed_bytes =
             SumOver([i \in DOMAIN summary.results |-> summary.results[i].freed_bytes],
                     {i \in DOMAIN summary.results : summary.results[i].success})

C10_Witness ==
    /\ bpc = "finalized"
    /\ projects >= 2
    /\ ~clean_rets[1].ok
    /\ clean_rets[2].ok /\ clean_rets[2].val.freed_bytes > 0
    /\ summary.failed = 1

(***************************************************************************)
(* Claims about the scanner adapter and the pruner, checked under SpecDeps.*)
(***************************************************************************)
CountCmdIn(log, c) == Cardinality({i \in DOMAIN log : log[i].cmd = c})
CountCmd(c) == CountCmdIn(invocations, c)

\* scanner A ran and the structured parse of one of its streams is non-empty
UdepsYields(o) ==
    /\ o.state = "ran"
    /\ \/ parse_udeps_output(o.stdout) # <<>>
       \/ parse_udeps_output(o.stderr) # <<>>

\* the first non-empty parse: stdout before stderr
UdepsList(o) ==
    IF parse_udeps_output(o.stdout) # <<>>
    THEN parse_udeps_output(o.stdout)
    ELSE parse_udeps_output(o.stderr)

C5_Order ==
    /\ \A i \in DOMAIN invocations :
          invocations[i].cmd = "machete" =>
             \E j \in 1..(i - 1) : invocations[j].cmd = "udeps"
    /\ (dpc \notin {"check", "direct"}) => CountCmd("udeps") = 1
    /\ CountCmd("udeps") <= 1
    /\ CountCmd("machete") <= 1
    /\ (dpc = "checked" /\ UdepsYields(udeps_output)) =>
          /\ unused_deps = UdepsList(udeps_output)
          /\ CountCmd("machete") = 0

C5_Step ==
    /\ CountCmdIn(invocations', "machete") > CountCmd("machete") =>
          /\ dpc = "machete"
          /\ CountCmd("udeps") = 1
    /\ (dpc' = "machete" /\ dpc # "machete") =>
          /\ dpc = "udeps_done"
          /\ ~UdepsYields(udeps_output)
    /\ (dpc = "udeps_done" /\ UdepsYields(udeps_output)) =>
          /\ dpc' = "checked"
          /\ unused_deps' = UdepsList(udeps_output)
          /\ invocations' = invocations

\* C5: scanner A is invoked first; scanner B is invoked at most once, and
\* only after scanner A could not be launched or the parse of both of its
\* streams gave the empty list; when a stream of scanner A yields a
\* non-empty list, that list (stdout before stderr) is returned and scanner
\* B is not invoked, whatever scanner A's exit status.
C5_ScannerPriority == []C5_Order /\ [][C5_Step]_vars

C5_Witness ==
    /\ dpc = "checked"
    /\ udeps_output.state = "ran" /\ udeps_output.status = 1
    /\ parse_udeps_output(udeps_output.stdout) = <<>>
    /\ parse_udeps_output(udeps_output.stderr) # <<>>
    /\ unused_deps # <<>>
    /\ CountCmd("machete") = 0

\* C6 as stated: remove_unused_dependencies never returns an error, whether
\* or not the manifest exists.
C6_NeverErrors == rpc = "returned" => r_ret.ok

\* C6 as amended: remove_unused_dependencies returns an error exactly when
\* dry_run = false, the list is non-empty and the manifest does not exist,
\* and then no remove command was launched; clean_dependencies never returns
\* an error and reports removed_count = 0 for that error.
C6_ErrorOnlyWithoutManifest ==
    /\ rpc = "returned" =>
          (~r_ret.ok <=> (~r_dry_run /\ r_deps # <<>> /\ ~manifest.exists))
    /\ (rpc = "returned" /\ ~r_ret.ok) =>
          (remove_log = <<>> /\ CountCmd("remove") = 0)
    /\ dpc = "returned" =>
          /\ dc_ret.ok
          /\ (rpc = "returned" /\ ~r_ret.ok) => dc_ret.val.removed_count = 0

C6_Witness ==
    /\ dpc = "returned" /\ rpc = "returned"
    /\ ~r_ret.ok
    /\ dc_ret.ok /\ dc_ret.val.unused_deps # <<>>

IsRemove(x) == x.cmd = "remove"

\* C7: with dry_run = false, a non-empty list and an existing manifest, the
\* remove command is attempted once for each listed dependency, in list
\* order, whatever failed before, and the returned count is the number of
\* commands that exited successfully; removed_count never exceeds the length
\* of the list in a DependencyCleanResult.
C7_PartialSuccess ==
    /\ (rpc = "returned" /\ ~r_dry_run /\ r_deps # <<>> /\ manifest.exists) =>
          /\ r_ret.ok
          /\ SelectSeq(invocations, IsRemove) =
                [i \in 1..Len(r_deps) |-> Invocation("remove", r_deps[i].name)]
          /\ Len(remove_log) = Len(r_deps)
          /\ \A i \in DOMAIN remove_log : remove_log[i].name = r_deps[i].name
          /\ r_ret.val = Cardinality({i \in DOMAIN remove_log :
                                         remove_log[i].outcome = "exit_success"})
    /\ dpc = "returned" =>
          dc_ret.val.removed_count <= Len(dc_ret.val.unused_deps)

C7_Witness ==
    /\ rpc = "returned" /\ ~r_dry_run
    /\ Len(remove_log) = 2
    /\ remove_log[1].outcome = "exit_failure"
    /\ remove_log[2].outcome = "exit_success"
    /\ r_ret.ok /\ r_ret.val = 1

\* C8: with dry_run = true or an empty list, remove_unused_dependencies
\* returns 0, launches no remove command, and neither checks nor changes the
\* manifest; clean_dependencies in dry-run mode reports removed_count = 0
\* and the whole list of detected unused dependencies.
C8_DryRunOrEmpty ==
    /\ (rpc = "returned" /\ (r_dry_run \/ r_deps = <<>>)) =>
          /\ r_ret.ok /\ r_ret.val = 0
          /\ remove_log = <<>>
          /\ CountCmd("remove") = 0
          /\ manifest_checks = 0
          /\ manifest \in InitManifests
    /\ (dpc = "returned" /\ dry_run) =>
          /\ dc_ret.ok
          /\ dc_ret.val.removed_count = 0
          /\ dc_ret.val.unused_deps = unused_deps
          /\ CountCmd("remove") = 0
          /\ manifest \in InitManifests

C8_Witness ==
    /\ dpc = "returned" /\ dry_run /\ remove
    /\ rpc = "returned" /\ ~manifest.exists
    /\ Len(dc_ret.val.unused_deps) >= 2

\* C9: no UnusedDependency returned by parse_udeps_output,
\* parse_machete_output or check_unused_dependencies has the empty name.
C9_NonEmptyNames ==
    \A i \in DOMAIN unused_deps : unused_deps[i].name # <<>>

=============================================================================
